---- MODULE Spec2Model ----
(***************************************************************************)
(* Model of src/src/funciones_auxiliares.py: the column classifier, the    *)
(* WoE/IV calculator, the outlier and null-rate summaries and Cramer's V   *)
(* with its pairwise matrix.  Every function is a call on an in-memory     *)
(* table; a call is one action.  Floating-point values are modelled        *)
(* exactly: finite values are rationals <<n, d>>, and NaN, +inf, -inf and  *)
(* logarithms are tagged records, so that NaN-skipping sums, divisions by  *)
(* zero and infinite logarithms behave as numpy/pandas define them.        *)
(***************************************************************************)
EXTENDS Integers, Sequences, FiniteSets, TLC

VARIABLES
    fn,                           \* which function family the run exercises
    pc,                           \* "ready" before a call; after it "returned", or
                                  \* "raised" / the name of the exception raised
    dataset,                      \* dame_variables_categoricas: the dataset
    lista_variables_categoricas,  \* dame_variables_categoricas: first result
    other,                        \* dame_variables_categoricas: second result
    df,                           \* iv_woe: the caller's dataframe
    df0,                          \* iv_woe: the dataframe as first handed in (history)
    observed,                     \* iv_woe: groupby's default for categorical keys
    tabla,                        \* iv_woe: the returned table
    iv_total,                     \* iv_woe: the returned total
    pd_loan,                      \* summaries: the dataset
    pandas2,                      \* summaries: reset_index names of value_counts
    pd_final,                     \* summaries: the returned table
    multiplier,                   \* get_deviation_of_mean_perc: the argument of the call
    data,                         \* cramer_matrix: the dataset
    matrix                        \* cramer_matrix: the returned matrix

vars == <<fn, pc, dataset, lista_variables_categoricas, other, df, df0, observed,
          tabla, iv_total, pd_loan, pandas2, pd_final, multiplier, data, matrix>>

\* A missing cell (NaN / None) of a column; real cell values are >= 0.
NULL == 0 - 1

\* Placeholder for a variable the exercised function does not touch.
Unused == <<>>

-----------------------------------------------------------------------------
(* Exact arithmetic on rationals <<n, d>>, d > 0, in lowest terms.          *)

Abs(x) == IF x < 0 THEN -x ELSE x

RECURSIVE Gcd(_, _)
Gcd(a, b) == IF b = 0 THEN a ELSE Gcd(b, a % b)

Rat(n, d) ==
    LET s == IF d < 0 THEN -1 ELSE 1
        g == Gcd(Abs(n), Abs(d))
    IN  <<(s * n) \div g, (s * d) \div g>>

RAdd(p, q) == Rat(p[1] * q[2] + q[1] * p[2], p[2] * q[2])
RSub(p, q) == Rat(p[1] * q[2] - q[1] * p[2], p[2] * q[2])
RMul(p, q) == Rat(p[1] * q[1], p[2] * q[2])
RDiv(p, q) == Rat(p[1] * q[2], p[2] * q[1])
RLess(p, q) == p[1] * q[2] < q[1] * p[2]
RSign(p) == IF p[1] > 0 THEN 1 ELSE IF p[1] < 0 THEN -1 ELSE 0
RZero == <<0, 1>>
ROne == <<1, 1>>

\* The elements of a sequence.
Range(s) == {s[i] : i \in 1..Len(s)}

-----------------------------------------------------------------------------
(* dame_variables_categoricas                                              *)

\* Names a column may carry (pandas allows two columns of one name).
ColumnNames == {"a", "b"}

\* dtypes a column may carry.
Dtypes == {"object", "category", "int64"}

\* Column contents: three rows each, with 0, 1, 2 and 3 distinct values.
SampleValues == { <<NULL, NULL, NULL>>, <<1, 1, 1>>, <<1, 2, NULL>>,
                  <<1, 1, 2>>, <<1, 2, 3>> }

\* Largest number of columns of a dataset.
MaxCols == 2

\* max_unicos as the signature defaults it.
DefaultMaxUnicos == 50

\* Thresholds a caller passes.
Thresholds == {1, 2, 3, 4, DefaultMaxUnicos}

Columns == [name : ColumnNames, dtype : Dtypes, values : SampleValues]

Datasets == UNION {[1..k -> Columns] : k \in 0..MaxCols}

\* dataset[i] is a Series only when the name i labels a single column.
IsSeries(ds, name) == Cardinality({j \in 1..Len(ds) : ds[j].name = name}) = 1

\* int(len(np.unique(dataset[i].dropna(...))))
Unicos(col) == Cardinality(Range(col.values) \ {NULL})

\* The test of the if.
EsCategorica(col, max_unicos) ==
    col.dtype \in {"object", "category"} \/ Unicos(col) < max_unicos

\* A slip that tests the two halves of the condition in two separate ifs.
AppendOtherDosIfs(lst, col, max_unicos) ==
    IF Unicos(col) >= max_unicos THEN Append(lst, col.name) ELSE lst

AppendCategorica(lst, col, max_unicos) ==
    IF EsCategorica(col, max_unicos) THEN Append(lst, col.name) ELSE lst

AppendOther(lst, col, max_unicos) ==
    IF EsCategorica(col, max_unicos) THEN lst ELSE Append(lst, col.name)

\* The for loop over dataset.columns, from column i on.
RECURSIVE ClasificaDesde(_, _, _, _, _)
ClasificaDesde(ds, i, max_unicos, cats, oth) ==
    IF i > Len(ds) THEN [status |-> "returned", cats |-> cats, other |-> oth]
    ELSE IF ~IsSeries(ds, ds[i].name)
         THEN [status |-> "raised", cats |-> cats, other |-> oth]
         ELSE ClasificaDesde(ds, i + 1, max_unicos,
                             AppendCategorica(cats, ds[i], max_unicos),
                             AppendOther(oth, ds[i], max_unicos))

InitClasifica ==
    /\ fn = "dame_variables_categoricas"
    /\ pc = "ready"
    /\ dataset \in Datasets
    /\ lista_variables_categoricas = <<>>
    /\ other = <<>>
    /\ df = Unused /\ df0 = Unused /\ observed = Unused
    /\ tabla = Unused /\ iv_total = Unused
    /\ pd_loan = Unused /\ pandas2 = Unused /\ pd_final = Unused /\ multiplier = Unused
    /\ data = Unused /\ matrix = Unused

dame_variables_categoricas(max_unicos) ==
    /\ fn = "dame_variables_categoricas"
    /\ pc = "ready"
    /\ LET r == ClasificaDesde(dataset, 1, max_unicos, <<>>, <<>>)
       IN  /\ pc' = r.status
           /\ lista_variables_categoricas' =
                  IF r.status = "returned" THEN r.cats ELSE <<>>
           /\ other' = IF r.status = "returned" THEN r.other ELSE <<>>
    /\ UNCHANGED <<fn, dataset, df, df0, observed, tabla, iv_total, pd_loan,
                   pandas2, pd_final, multiplier, data, matrix>>

NextClasifica == \E max_unicos \in Thresholds : dame_variables_categoricas(max_unicos)

SpecClasifica == InitClasifica /\ [][NextClasifica]_vars

\* Number of times name occurs in a list.
Veces(lst, name) == Cardinality({j \in 1..Len(lst) : lst[j] = name})

\* C1: when dame_variables_categoricas returns, every column name of the
\* dataset occurs exactly once in the two lists taken together, and no other
\* name occurs in them: the lists are disjoint and their union is the columns.
C1_Particion ==
    (fn = "dame_variables_categoricas" /\ pc = "returned") =>
        /\ \A j \in 1..Len(dataset) :
              Veces(lista_variables_categoricas, dataset[j].name)
                + Veces(other, dataset[j].name) = 1
        /\ Range(lista_variables_categoricas) \cup Range(other)
              = {dataset[j].name : j \in 1..Len(dataset)}
        /\ Range(lista_variables_categoricas) \cap Range(other) = {}

\* A returned call on two columns, one landing in each list, one of them of
\* text dtype with as many distinct values as the threshold.
C1_Witness ==
    /\ fn = "dame_variables_categoricas" /\ pc = "returned"
    /\ Len(dataset) = 2
    /\ Len(lista_variables_categoricas) = 1 /\ Len(other) = 1
    /\ \E j \in 1..2 : dataset[j].dtype = "object" /\ Unicos(dataset[j]) = 3

-----------------------------------------------------------------------------
(* Floating-point values as numpy produces them.  A value is NaN, +inf,    *)
(* -inf, or c * ln(a) for rationals c and a > 0; a plain finite number q   *)
(* is written with kind "fin" (c = q, a = 1), and an irrational square     *)
(* root sqrt(c) with kind "sqrt".                                          *)

NaN == [k |-> "nan", c |-> RZero, a |-> ROne]
PosInf == [k |-> "inf", c |-> RZero, a |-> ROne]
NegInf == [k |-> "ninf", c |-> RZero, a |-> ROne]
Fin(q) == [k |-> "fin", c |-> q, a |-> ROne]
CLn(c, a) == [k |-> "ln", c |-> c, a |-> a]
FZero == Fin(RZero)

\* Series of integers / integer: 0/0 is NaN, x/0 is +-inf.
FDivInt(x, y) ==
    IF y = 0 THEN (IF x = 0 THEN NaN ELSE IF x > 0 THEN PosInf ELSE NegInf)
    ELSE Fin(Rat(x, y))

\* Float / float on finite values and NaN.
FDiv(x, y) ==
    IF x.k = "nan" \/ y.k = "nan" THEN NaN
    ELSE IF x.k = "fin" /\ y.k = "fin"
         THEN (IF y.c = RZero
               THEN (IF x.c = RZero THEN NaN
                     ELSE IF RSign(x.c) > 0 THEN PosInf ELSE NegInf)
               ELSE Fin(RDiv(x.c, y.c)))
         ELSE NaN

FSub(x, y) ==
    IF x.k = "fin" /\ y.k = "fin" THEN Fin(RSub(x.c, y.c)) ELSE NaN

\* np.log: log(0) = -inf, log(negative) = NaN, log(1) = 0.
FLog(x) ==
    CASE x.k = "nan" -> NaN
      [] x.k = "inf" -> PosInf
      [] x.k = "ninf" -> NaN
      [] x.k = "fin" -> (IF RSign(x.c) = 0 THEN NegInf
                         ELSE IF RSign(x.c) < 0 THEN NaN
                         ELSE IF x.c = ROne THEN FZero
                         ELSE CLn(ROne, x.c))
      [] OTHER -> NaN

\* finite * value: 0 * inf is NaN, 0 * finite is 0.
FMul(x, y) ==
    IF x.k # "fin" \/ y.k = "nan" THEN NaN
    ELSE CASE y.k = "fin" -> Fin(RMul(x.c, y.c))
           [] y.k = "ln" -> (IF x.c = RZero THEN FZero ELSE CLn(RMul(x.c, y.c), y.a))
           [] y.k = "inf" -> (IF RSign(x.c) = 0 THEN NaN
                              ELSE IF RSign(x.c) > 0 THEN PosInf ELSE NegInf)
           [] y.k = "ninf" -> (IF RSign(x.c) = 0 THEN NaN
                               ELSE IF RSign(x.c) > 0 THEN NegInf ELSE PosInf)
           [] OTHER -> NaN

\* The sign of a value: 1, 0, -1; ln(a) has the sign of a - 1, and a tagged
\* square root that of its radicand.
FSign(x) ==
    CASE x.k \in {"fin", "sqrt"} -> RSign(x.c)
      [] x.k = "ln" -> RSign(x.c) * RSign(RSub(x.a, ROne))
      [] x.k = "inf" -> 1
      [] x.k = "ninf" -> -1
      [] OTHER -> 0

\* Series.replace(0, np.nan)
ReplaceZeroNaN(x) == IF x = FZero THEN NaN ELSE x

\* Series.replace([np.inf, -np.inf], 0)
ReplaceInfZero(x) == IF x.k \in {"inf", "ninf"} THEN FZero ELSE x

-----------------------------------------------------------------------------
(* iv_woe                                                                  *)

\* Rows of the dataframe handed to iv_woe.
NumRowsIV == 4

\* Largest bin count a caller passes; bins = 0 stands for None (both falsy).
MaxBins == 3

\* Values of the analysed variable (NULL: missing) and of the binary target.
VariableValues == {NULL, 1, 2, 3}
TargetValues == {0, 1}

\* The ascending sequence of a finite set of integers.
RECURSIVE SortedSeq(_)
SortedSeq(S) ==
    IF S = {} THEN <<>>
    ELSE LET m == CHOOSE x \in S : \A y \in S : x <= y
         IN  <<m>> \o SortedSeq(S \ {m})

NoNulos(col) == Range(col) \ {NULL}

SetMin(S) == CHOOSE x \in S : \A y \in S : x <= y
SetMax(S) == CHOOSE x \in S : \A y \in S : x >= y

\* Ceiling of n / d for n >= 0, d > 0.
CeilDiv(n, d) == (n + d - 1) \div d

\* pd.cut(x, bins=b): the 1-based index of the equal-width, right-closed
\* interval of v.  Edges are linspace(mn, mx, b + 1) with the first edge
\* lowered by 0.1% of the range; a constant column has its range widened
\* on both sides, which puts its value in the middle interval.
BinDe(v, mn, mx, b) ==
    IF v = NULL THEN NULL
    ELSE IF mn = mx THEN (b + 1) \div 2
    ELSE IF v = mn THEN 1
    ELSE CeilDiv((v - mn) * b, mx - mn)

\* df[variable] = pd.cut(df[variable], bins=bins, duplicates='drop') on a
\* numeric column with at least one value present.
Cut(d, b) ==
    LET mn == SetMin(NoNulos(d.variable))
        mx == SetMax(NoNulos(d.variable))
    IN  [d EXCEPT !.variable = [i \in 1..Len(d.variable) |->
                                    BinDe(d.variable[i], mn, mx, b)],
                  !.binned = TRUE,
                  !.ncat = b]

\* The group keys of df.groupby(variable), ascending; missing keys are
\* dropped, and a categorical key lists unobserved categories too unless
\* observed is set.
Claves(d, obs) ==
    IF d.binned /\ ~obs THEN SortedSeq(1..d.ncat)
    ELSE SortedSeq(NoNulos(d.variable))

\* (x == t).sum() over the rows of one group.
Cuenta(d, clave, t) ==
    Cardinality({i \in 1..Len(d.target) : d.variable[i] = clave /\ d.target[i] = t})

\* (df[target] == t).sum() over the whole dataframe.
Total(d, t) == Cardinality({i \in 1..Len(d.target) : d.target[i] = t})

\* tabla['IV'] = (dist_buenos - dist_malos) * WoE, WoE not yet replaced.
FilaIV(dist_buenos, dist_malos, woe) ==
    FMul(FSub(dist_buenos, dist_malos), woe)

\* One row of the table.
Fila(d, clave) ==
    LET buenos == Cuenta(d, clave, 0)
        malos == Cuenta(d, clave, 1)
        dist_buenos == FDivInt(buenos, Total(d, 0))
        dist_malos == FDivInt(malos, Total(d, 1))
        woe == FLog(FDiv(dist_buenos, ReplaceZeroNaN(dist_malos)))
    IN  [clave |-> clave, buenos |-> buenos, malos |-> malos,
         dist_buenos |-> dist_buenos, dist_malos |-> dist_malos,
         WoE |-> ReplaceInfZero(woe),
         IV |-> FilaIV(dist_buenos, dist_malos, woe)]

Tabla(d, obs) == LET ks == Claves(d, obs) IN [j \in 1..Len(ks) |-> Fila(d, ks[j])]

\* A sum that lets NaN through (skipna=False).
SumaSinSkipna(col) ==
    IF \E j \in 1..Len(col) : col[j].k = "nan" THEN NaN
    ELSE IF \E j \in 1..Len(col) : col[j].k = "inf" THEN PosInf
    ELSE [k |-> "sum", terms |-> SelectSeq(col, LAMBDA x : FSign(x) # 0)]

\* Series.sum(): NaN is skipped; +inf and -inf together give NaN; a finite
\* sum is kept as the sequence of its nonzero terms.
Suma(col) ==
    LET hay(kind) == \E j \in 1..Len(col) : col[j].k = kind
    IN  IF hay("inf") /\ hay("ninf") THEN NaN
        ELSE IF hay("inf") THEN PosInf
        ELSE IF hay("ninf") THEN NegInf
        ELSE [k |-> "sum",
              terms |-> SelectSeq(col, LAMBDA x : x.k # "nan" /\ FSign(x) # 0)]

\* The empty finite sum: the value 0.
SumaCero == [k |-> "sum", terms |-> <<>>]

\* The dataframes handed in: a binary target without missing rows and a
\* numeric variable with at least one row present.
DataframesIV ==
    {d \in [target : [1..NumRowsIV -> TargetValues],
            variable : [1..NumRowsIV -> VariableValues],
            binned : {FALSE}, ncat : {0}] : NoNulos(d.variable) # {}}

InitIV ==
    /\ fn = "iv_woe"
    /\ pc = "ready"
    /\ df \in DataframesIV
    /\ df0 = df
    /\ observed \in BOOLEAN
    /\ tabla = <<>>
    /\ iv_total = SumaCero
    /\ dataset = Unused /\ lista_variables_categoricas = Unused /\ other = Unused
    /\ pd_loan = Unused /\ pandas2 = Unused /\ pd_final = Unused /\ multiplier = Unused
    /\ data = Unused /\ matrix = Unused

\* Lines 143-164 on the dataframe d as it stands after the binning step.
IvWoeCuerpo(d) ==
    LET t == Tabla(d, observed)
    IN  /\ df' = d
        /\ tabla' = t
        /\ iv_total' = Suma([j \in 1..Len(t) |-> t[j].IV])
        /\ pc' = "returned"

\* pd.cut raised: nothing is assigned and nothing is returned.
IvWoeRaise ==
    /\ pc' = "raised"
    /\ tabla' = <<>>
    /\ iv_total' = SumaCero
    /\ UNCHANGED df

\* iv_woe(df, variable, target, bins) without a bin count.
IvWoeSinBins ==
    /\ fn = "iv_woe"
    /\ IvWoeCuerpo(df)
    /\ UNCHANGED <<fn, df0, observed, dataset, lista_variables_categoricas, other,
                   pd_loan, pandas2, pd_final, multiplier, data, matrix>>

\* iv_woe with a bin count on a numeric column.
IvWoeConBins(bins) ==
    /\ fn = "iv_woe"
    /\ bins > 0
    /\ ~df.binned
    /\ IvWoeCuerpo(Cut(df, bins))
    /\ UNCHANGED <<fn, df0, observed, dataset, lista_variables_categoricas, other,
                   pd_loan, pandas2, pd_final, multiplier, data, matrix>>

\* iv_woe with a bin count on a column an earlier call has binned: pd.cut
\* of interval categories raises.
IvWoeConBinsOtraVez(bins) ==
    /\ fn = "iv_woe"
    /\ bins > 0
    /\ df.binned
    /\ IvWoeRaise
    /\ UNCHANGED <<fn, df0, observed, dataset, lista_variables_categoricas, other,
                   pd_loan, pandas2, pd_final, multiplier, data, matrix>>

NextIV ==
    \/ IvWoeSinBins
    \/ \E bins \in 1..MaxBins : IvWoeConBins(bins)
    \/ \E bins \in 1..MaxBins : IvWoeConBinsOtraVez(bins)

SpecIV == InitIV /\ [][NextIV]_vars

-----------------------------------------------------------------------------
(* Properties of iv_woe                                                    *)

Devuelto == fn = "iv_woe" /\ pc = "returned"

AmbosTargets == Total(df, 0) > 0 /\ Total(df, 1) > 0
TargetConstante == Total(df, 0) = 0 \/ Total(df, 1) = 0

\* The variable, as grouped, has exactly one category among its present rows.
Unaria == Cardinality(NoNulos(df.variable)) = 1
SinNulos == NULL \notin Range(df.variable)

\* iv_total is the number 0.
IVTotalCero == iv_total = SumaCero

\* iv_total is a finite number >= 0.
IVTotalNoNegativoFinito ==
    /\ iv_total.k = "sum"
    /\ \A j \in 1..Len(iv_total.terms) : FSign(iv_total.terms[j]) >= 0

\* C2: in the returned table WoE is 0 for every group whose dist_malos is 0
\* and for every group whose dist_buenos is 0 with dist_malos > 0, and is
\* ln(dist_buenos / dist_malos) for every other group.
C2_WoEEnmascarado ==
    Devuelto =>
        \A j \in 1..Len(tabla) :
            LET r == tabla[j]
            IN  IF r.dist_malos = FZero THEN r.WoE = FZero
                ELSE IF r.dist_buenos = FZero /\ FSign(r.dist_malos) > 0
                     THEN r.WoE = FZero
                     ELSE r.WoE = FLog(FDiv(r.dist_buenos, r.dist_malos))

\* C3: every row's IV is (dist_buenos - dist_malos) times the WoE the table
\* returns (the masked one), a group with no good or no bad row adds nothing
\* to the total, and when both target values occur and every group holds
\* rows of one target value only the total is 0.
C3_IVEnmascarado ==
    Devuelto =>
        /\ \A j \in 1..Len(tabla) :
              LET r == tabla[j]
              IN  /\ r.IV = FMul(FSub(r.dist_buenos, r.dist_malos), r.WoE)
                  /\ (r.buenos = 0 \/ r.malos = 0) => r.IV \in {FZero, NaN}
        /\ (AmbosTargets /\ \A j \in 1..Len(tabla) :
                               tabla[j].buenos = 0 \/ tabla[j].malos = 0)
              => IVTotalCero

\* C4 as stated: the total is 0 whenever the variable is unary (with or
\* without missing rows) or the target is constant.  An infinite total is
\* the matter of C3 and C5 and is let through here, so that a violation
\* shows a finite total other than 0.
C4_UnariaOConstante ==
    (Devuelto /\ (Unaria \/ TargetConstante)) => (IVTotalCero \/ iv_total = PosInf)

\* C4 as amended: the total is 0 whenever the variable is unary and has no
\* missing row, or the target is constant.
C4_UnariaSinNulosOConstante ==
    (Devuelto /\ ((Unaria /\ SinNulos) \/ TargetConstante)) => IVTotalCero

\* A returned call on a unary variable without missing rows, both target
\* values present, the single group holding every good and every bad row.
C4_Witness ==
    /\ Devuelto /\ Unaria /\ SinNulos /\ AmbosTargets
    /\ Len(tabla) = 1
    /\ tabla[1].dist_buenos = Fin(ROne) /\ tabla[1].dist_malos = Fin(ROne)
    /\ IVTotalCero

\* C5: when both target values occur the total is a finite number >= 0.
C5_NoNegativoFinito ==
    (Devuelto /\ AmbosTargets) => IVTotalNoNegativoFinito

\* C10: iv_woe leaves the caller's dataframe as it was before the first call.
C10_NoModifica ==
    fn = "iv_woe" => df = df0

-----------------------------------------------------------------------------
(* cramers_v and cramer_matrix                                             *)

\* Rows of the dataset handed to cramer_matrix.
NumRowsCramer == 4

\* Category labels of a categorical column.
Categories == {1, 2, 3}

\* categorical_vars as the caller passes it.
CategoricalVars == <<"a", "b">>

\* pd.crosstab(x, y).values: counts by the sorted labels of x (rows) and of
\* y (columns); only labels that occur get a row or a column.
Crosstab(x, y) ==
    LET rs == SortedSeq(Range(x))
        cs == SortedSeq(Range(y))
    IN  [i \in 1..Len(rs) |-> [j \in 1..Len(cs) |->
            Cardinality({t \in 1..Len(x) : x[t] = rs[i] /\ y[t] = cs[j]})]]

RECURSIVE SumTo(_, _)
SumTo(f, m) == IF m = 0 THEN 0 ELSE f[m] + SumTo(f, m - 1)

RECURSIVE RSumTo(_, _)
RSumTo(f, m) == IF m = 0 THEN RZero ELSE RAdd(f[m], RSumTo(f, m - 1))

NumFilas(T) == Len(T)
NumColumnas(T) == IF Len(T) = 0 THEN 0 ELSE Len(T[1])
SumaFila(T, i) == SumTo(T[i], NumColumnas(T))
SumaColumna(T, j) == SumTo([i \in 1..NumFilas(T) |-> T[i][j]], NumFilas(T))
SumaTotal(T) == SumTo([i \in 1..NumFilas(T) |-> SumaFila(T, i)], NumFilas(T))

\* One cell's share of the statistic, (|O - E| - c)^2 / E with E = R*C/n:
\* c = 0 without the continuity correction, c = min(1/2, |O - E|) with it.
\* With D = |n*O - R*C| the share is D^2/(n*R*C), corrected
\* max(2D - n, 0)^2/(4*n*R*C).
Chi2Celda(o, R, C, n, yates) ==
    LET D == Abs(n * o - R * C)
        e == IF 2 * D - n > 0 THEN 2 * D - n ELSE 0
    IN  IF yates THEN Rat(e * e, 4 * n * R * C) ELSE Rat(D * D, n * R * C)

\* ss.chi2_contingency(T)[0], correction=True by default: the continuity
\* correction is applied exactly when the table has one degree of freedom,
\* and a table with none has statistic 0.
Chi2Contingency(T) ==
    LET r == NumFilas(T)
        k == NumColumnas(T)
        n == SumaTotal(T)
        dof == (r - 1) * (k - 1)
        fila(i) == RSumTo([j \in 1..k |->
                       Chi2Celda(T[i][j], SumaFila(T, i), SumaColumna(T, j), n, dof = 1)], k)
    IN  IF dof = 0 THEN RZero ELSE RSumTo([i \in 1..r |-> fila(i)], r)

\* max(0, x) of Python: 0 unless x > 0 (so 0 for NaN).
Max0(x) == IF FSign(x) > 0 THEN x ELSE FZero

\* x - 1 on a float.
Menos1(x) == FSub(x, Fin(ROne))

\* A slip that corrects by the row count alone.
SoloRcorr(kcorr1, rcorr1) == rcorr1

\* min(kcorr-1, rcorr-1) of Python: the first unless the second is smaller.
MinCorr(kcorr1, rcorr1) ==
    IF kcorr1.k = "fin" /\ rcorr1.k = "fin" /\ RLess(rcorr1.c, kcorr1.c)
    THEN rcorr1 ELSE kcorr1

\* np.sqrt; an irrational root is kept as the tagged radicand.
FSqrt(x) ==
    CASE x.k = "nan" -> NaN
      [] x.k = "inf" -> PosInf
      [] x.k = "fin" -> (IF RSign(x.c) < 0 THEN NaN
                         ELSE IF x.c = RZero \/ x.c = ROne THEN x
                         ELSE [k |-> "sqrt", c |-> x.c, a |-> ROne])
      [] OTHER -> NaN

cramers_v(confusion_matrix) ==
    LET chi2 == Chi2Contingency(confusion_matrix)
        n == SumaTotal(confusion_matrix)
        phi2 == FDiv(Fin(chi2), Fin(Rat(n, 1)))
        r == NumFilas(confusion_matrix)
        k == NumColumnas(confusion_matrix)
        phi2corr == Max0(FSub(phi2, FDivInt((k - 1) * (r - 1), n - 1)))
        rcorr == FSub(Fin(Rat(r, 1)), FDivInt((r - 1) * (r - 1), n - 1))
        kcorr == FSub(Fin(Rat(k, 1)), FDivInt((k - 1) * (k - 1), n - 1))
    IN  FSqrt(FDiv(phi2corr, MinCorr(Menos1(kcorr), Menos1(rcorr))))

\* The double loop: one cell per ordered pair, each from its own crosstab.
CramerMatrix(d, categorical_vars) ==
    [var1 \in Range(categorical_vars) |-> [var2 \in Range(categorical_vars) |->
        cramers_v(Crosstab(d[var1], d[var2]))]]

InitCramer ==
    /\ fn = "cramer_matrix"
    /\ pc = "ready"
    /\ data \in [Range(CategoricalVars) -> [1..NumRowsCramer -> Categories]]
    /\ matrix = <<>>
    /\ dataset = Unused /\ lista_variables_categoricas = Unused /\ other = Unused
    /\ df = Unused /\ df0 = Unused /\ observed = Unused
    /\ tabla = Unused /\ iv_total = Unused
    /\ pd_loan = Unused /\ pandas2 = Unused /\ pd_final = Unused /\ multiplier = Unused

cramer_matrix ==
    /\ fn = "cramer_matrix"
    /\ pc = "ready"
    /\ matrix' = CramerMatrix(data, CategoricalVars)
    /\ pc' = "returned"
    /\ UNCHANGED <<fn, data, dataset, lista_variables_categoricas, other, df, df0,
                   observed, tabla, iv_total, pd_loan, pandas2, pd_final, multiplier>>

NextCramer == cramer_matrix

SpecCramer == InitCramer /\ [][NextCramer]_vars

MatrizDevuelta == fn = "cramer_matrix" /\ pc = "returned"

NumCategorias(col) == Cardinality(Range(col))

\* C6: every diagonal cell matrix[v, v] is 1.  The crosstab of a variable
\* with itself is square with one nonzero cell per row and per column;
\* variables of a single category, whose statistic the formula leaves
\* undefined, are set aside.
C6_DiagonalUno ==
    MatrizDevuelta =>
        \A v \in Range(CategoricalVars) :
            NumCategorias(data[v]) >= 2 => matrix[v][v] = Fin(ROne)

\* C7: the returned matrix equals its transpose: matrix[a, b] = matrix[b, a]
\* for every ordered pair of listed variables.
C7_Simetrica ==
    MatrizDevuelta =>
        \A v1 \in Range(CategoricalVars) : \A v2 \in Range(CategoricalVars) :
            matrix[v1][v2] = matrix[v2][v1]

\* A returned matrix whose off-diagonal crosstab is not square and whose
\* off-diagonal cells are one positive number.
C7_Witness ==
    /\ MatrizDevuelta
    /\ NumCategorias(data["a"]) # NumCategorias(data["b"])
    /\ matrix["a"]["b"].k \in {"fin", "sqrt"}
    /\ FSign(matrix["a"]["b"]) > 0
    /\ matrix["a"]["b"] = matrix["b"]["a"]

-----------------------------------------------------------------------------
(* get_percent_null_values_target and get_deviation_of_mean_perc           *)

\* Rows of the dataset handed to the two summaries.
NumRowsNulos == 3
NumRowsOutliers == 4

\* list_var_continuous as the caller passes it.
ListVarContinuous == <<"x", "y">>

\* Multipliers a caller passes to get_deviation_of_mean_perc.
MaxMultiplier == 2

\* Target values of the summaries' datasets; the null-rate summary is also
\* run on a target of three classes.
TargetNulos == {0, 1, 2}
TargetOutliers == {0, 1}

\* Cell values of the listed variables.
ValoresNulos == {NULL, 1}
ValoresOutliers == {0, 1, 2}

\* The subsequence of s at the positions in the set P, in order.
RECURSIVE Filtra(_, _, _)
Filtra(s, P, i) ==
    IF i > Len(s) THEN <<>>
    ELSE (IF i \in P THEN <<s[i]>> ELSE <<>>) \o Filtra(s, P, i + 1)

Apariciones(s, v) == Cardinality({i \in 1..Len(s) : s[i] = v})
Primera(s, v) == CHOOSE i \in 1..Len(s) : s[i] = v /\ \A j \in 1..(i - 1) : s[j] # v

\* Series.value_counts(normalize=True).reset_index(): one record per
\* distinct value, most frequent first (ties in order of appearance).
RECURSIVE ValueCountsDe(_, _)
ValueCountsDe(s, pendientes) ==
    IF pendientes = {} THEN <<>>
    ELSE LET v == CHOOSE x \in pendientes : \A y \in pendientes :
                      \/ Apariciones(s, x) > Apariciones(s, y)
                      \/ /\ Apariciones(s, x) = Apariciones(s, y)
                         /\ Primera(s, x) <= Primera(s, y)
         IN  <<[valor |-> v, proporcion |-> Rat(Apariciones(s, v), Len(s))]>>
                 \o ValueCountsDe(s, pendientes \ {v})

ValueCounts(s) == ValueCountsDe(s, Range(s))

\* pd.DataFrame(...reset_index()).T: the first row holds the values, the
\* second their proportions; the rows are labelled by the column names of
\* reset_index, which are (target, 'proportion') from pandas 2 on and
\* ('index', target) before.
Transpuesta(vc, p2) ==
    << [fila |-> IF p2 THEN "target" ELSE "index",
        celdas |-> [j \in 1..Len(vc) |-> Fin(Rat(vc[j].valor, 1))]],
       [fila |-> IF p2 THEN "proportion" ELSE "target",
        celdas |-> [j \in 1..Len(vc) |-> Fin(vc[j].proporcion)]] >>

\* pd_concat_percent.columns = [iloc[0,0], iloc[0,1]]: an IndexError when
\* the frame has fewer than two columns, a ValueError when it has more.
AsignaColumnas(vc) ==
    IF Len(vc) < 2 THEN "IndexError"
    ELSE IF Len(vc) > 2 THEN "ValueError"
    ELSE "ok"

\* The rows left after drop(etiqueta, axis=0), with the three columns the
\* body adds.
FilasDe(vc, p2, etiqueta, i, cuenta, total) ==
    LET t == SelectSeq(Transpuesta(vc, p2), LAMBDA f : f.fila # etiqueta)
    IN  [j \in 1..Len(t) |->
            [fila |-> t[j].fila,
             columnas |-> <<vc[1].valor, vc[2].valor>>,
             celdas |-> t[j].celdas,
             variable |-> i,
             suma |-> cuenta,
             porcentaje |-> Rat(cuenta, total)]]

\* pd_loan[i].isnull(): the positions of the missing cells.
Nulos(col) == {t \in 1..Len(col) : col[t] = NULL}

\* The for loop of get_percent_null_values_target from list position p on.
RECURSIVE NullLoop(_, _, _, _)
NullLoop(d, p2, p, final) ==
    IF p > Len(ListVarContinuous) THEN [status |-> "returned", pd_final |-> final]
    ELSE LET i == ListVarContinuous[p]
             nulos == Nulos(d[i])
             vc == ValueCounts(Filtra(d.target, nulos, 1))
         IN  IF Cardinality(nulos) > 0
             THEN (IF AsignaColumnas(vc) # "ok"
                   THEN [status |-> AsignaColumnas(vc), pd_final |-> <<>>]
                   ELSE NullLoop(d, p2, p + 1,
                            final \o FilasDe(vc, p2, "index", i,
                                             Cardinality(nulos), Len(d.target))))
             ELSE NullLoop(d, p2, p + 1, final)

\* Presentes, suma and the outlier test of one column.  With M values
\* present, sum S and sample variance sum((x - S/M)^2)/(M - 1), a value x is
\* outside [mean - k*std, mean + k*std] exactly when
\* (M*x - S)^2 * (M - 1) > k^2 * sum((M*x_t - S)^2); with fewer than two
\* values present the standard deviation is NaN and no comparison holds.
Presentes(col) == {t \in 1..Len(col) : col[t] # NULL}
SumaCol(col) == SumTo([t \in 1..Len(col) |-> IF col[t] = NULL THEN 0 ELSE col[t]], Len(col))
Desvios2(col) ==
    LET M == Cardinality(Presentes(col))
        S == SumaCol(col)
    IN  SumTo([t \in 1..Len(col) |->
                  IF col[t] = NULL THEN 0 ELSE (M * col[t] - S) * (M * col[t] - S)],
              Len(col))

\* (pd_loan[i] < left) | (pd_loan[i] > right)
Outliers(col, k) ==
    LET M == Cardinality(Presentes(col))
        S == SumaCol(col)
    IN  {t \in Presentes(col) :
            /\ M >= 2
            /\ (M * col[t] - S) * (M * col[t] - S) * (M - 1)
                  > k * k * Desvios2(col)}

\* The for loop of get_deviation_of_mean_perc from list position p on.
RECURSIVE DeviationLoop(_, _, _, _, _)
DeviationLoop(d, p2, k, p, final) ==
    IF p > Len(ListVarContinuous) THEN [status |-> "returned", pd_final |-> final]
    ELSE LET i == ListVarContinuous[p]
             fuera == Outliers(d[i], k)
             vc == ValueCounts(Filtra(d.target, fuera, 1))
         IN  IF Cardinality(fuera) > 0
             THEN (IF AsignaColumnas(vc) # "ok"
                   THEN [status |-> AsignaColumnas(vc), pd_final |-> <<>>]
                   ELSE DeviationLoop(d, p2, k, p + 1,
                            final \o FilasDe(vc, p2, "target", i,
                                             Cardinality(fuera), Len(d[i]))))
             ELSE DeviationLoop(d, p2, k, p + 1, final)

InitNulos ==
    /\ fn = "get_percent_null_values_target"
    /\ pc = "ready"
    /\ pd_loan \in [target : [1..NumRowsNulos -> TargetNulos],
                    x : [1..NumRowsNulos -> ValoresNulos],
                    y : [1..NumRowsNulos -> ValoresNulos]]
    /\ pandas2 \in BOOLEAN
    /\ pd_final = <<>>
    /\ multiplier = Unused
    /\ dataset = Unused /\ lista_variables_categoricas = Unused /\ other = Unused
    /\ df = Unused /\ df0 = Unused /\ observed = Unused
    /\ tabla = Unused /\ iv_total = Unused
    /\ data = Unused /\ matrix = Unused

get_percent_null_values_target ==
    /\ fn = "get_percent_null_values_target"
    /\ pc = "ready"
    /\ LET r == NullLoop(pd_loan, pandas2, 1, <<>>)
       IN  /\ pc' = r.status
           /\ pd_final' = r.pd_final
    /\ UNCHANGED <<fn, pd_loan, pandas2, multiplier, dataset,
                   lista_variables_categoricas, other,
                   df, df0, observed, tabla, iv_total, data, matrix>>

NextNulos == get_percent_null_values_target

SpecNulos == InitNulos /\ [][NextNulos]_vars

InitOutliers ==
    /\ fn = "get_deviation_of_mean_perc"
    /\ pc = "ready"
    /\ pd_loan \in [target : [1..NumRowsOutliers -> TargetOutliers],
                    x : [1..NumRowsOutliers -> ValoresOutliers],
                    y : [1..NumRowsOutliers -> ValoresOutliers]]
    /\ pandas2 \in BOOLEAN
    /\ pd_final = <<>>
    /\ multiplier = Unused
    /\ dataset = Unused /\ lista_variables_categoricas = Unused /\ other = Unused
    /\ df = Unused /\ df0 = Unused /\ observed = Unused
    /\ tabla = Unused /\ iv_total = Unused
    /\ data = Unused /\ matrix = Unused

get_deviation_of_mean_perc(k) ==
    /\ fn = "get_deviation_of_mean_perc"
    /\ pc = "ready"
    /\ multiplier' = k
    /\ LET r == DeviationLoop(pd_loan, pandas2, k, 1, <<>>)
       IN  /\ pc' = r.status
           /\ pd_final' = r.pd_final
    /\ UNCHANGED <<fn, pd_loan, pandas2, dataset, lista_variables_categoricas, other,
                   df, df0, observed, tabla, iv_total, data, matrix>>

NextOutliers == \E k \in 0..MaxMultiplier : get_deviation_of_mean_perc(k)

SpecOutliers == InitOutliers /\ [][NextOutliers]_vars

\* The rows of pd_final that belong to variable i.
FilasDeVariable(i) == {j \in 1..Len(pd_final) : pd_final[j].variable = i}

\* C8: the call returns, and for each listed variable with a missing value
\* there is a row carrying its missing count and that count over the row
\* count of the dataset, whatever target values the missing rows hold; a
\* variable without a missing value has no row.
C8_FilaPorVariableConNulos ==
    (fn = "get_percent_null_values_target" /\ pc # "ready") =>
        /\ pc = "returned"
        /\ \A p \in 1..Len(ListVarContinuous) :
              LET i == ListVarContinuous[p]
                  n == Cardinality(Nulos(pd_loan[i]))
              IN  IF n > 0
                  THEN /\ FilasDeVariable(i) # {}
                       /\ \A j \in FilasDeVariable(i) :
                             /\ pd_final[j].suma = n
                             /\ pd_final[j].porcentaje = Rat(n, Len(pd_loan.target))
                  ELSE FilasDeVariable(i) = {}

\* C9: the call returns, and the rows of the table belong to exactly the
\* listed variables with a value strictly outside the interval, each row
\* carrying the outlier count and the count over the column size; with no
\* outlier anywhere the table is empty.
C9_FilaPorVariableConOutliers ==
    (fn = "get_deviation_of_mean_perc" /\ pc # "ready") =>
        /\ pc = "returned"
        /\ \A p \in 1..Len(ListVarContinuous) :
              LET i == ListVarContinuous[p]
                  n == Cardinality(Outliers(pd_loan[i], multiplier))
              IN  IF n > 0
                  THEN /\ FilasDeVariable(i) # {}
                       /\ \A j \in FilasDeVariable(i) :
                             /\ pd_final[j].suma = n
                             /\ pd_final[j].porcentaje = Rat(n, Len(pd_loan[i]))
                  ELSE FilasDeVariable(i) = {}

====
